---- MODULE Spec2Model ----
(***************************************************************************)
(* Routing policy of smart_support_bot.py: the text classifiers, the       *)
(* capability gate and handle_user_message, together with the caller's     *)
(* ModelSettings object and the metadata dictionaries it shares with the   *)
(* returned actions.  Texts are strings, read character by character.      *)
(***************************************************************************)
EXTENDS Integers, Sequences, FiniteSets, TLC

VARIABLES
    model_settings,   \* the caller's ModelSettings object: tool_choice, metadata (a reference or None)
    heap,             \* the live dict objects: reference -> dict, a dict being a set of <<key, value>>
    last,             \* the latest handle_user_message call (arguments, returned action) or NoCall
    repeat            \* the latest call repeated the arguments of the call before it

vars == <<model_settings, heap, last, repeat>>

None == "<None>"
NoCall == [kind |-> "nocall"]

-----------------------------------------------------------------------------
(* Python str primitives                                                   *)

UPPERS == "ABCDEFGHIJKLMNOPQRSTUVWXYZ"
LOWERS == "abcdefghijklmnopqrstuvwxyz"
DIGITS == "0123456789"
WORDCHARS == UPPERS \o LOWERS \o DIGITS \o "_"

CharAt(s, i) == SubSeq(s, i, i)

IndexIn(c, alphabet) ==
    IF \E j \in 1..Len(alphabet) : CharAt(alphabet, j) = c
    THEN CHOOSE j \in 1..Len(alphabet) : CharAt(alphabet, j) = c
    ELSE 0

\* s with every character of `from` replaced by the one at its place in `to`
RECURSIVE MapChars(_, _, _)
MapChars(s, from, to) ==
    IF Len(s) = 0 THEN ""
    ELSE IF Len(s) = 1
    THEN LET j == IndexIn(s, from) IN IF j = 0 THEN s ELSE CharAt(to, j)
    ELSE LET h == Len(s) \div 2
         IN MapChars(SubSeq(s, 1, h), from, to) \o MapChars(SubSeq(s, h + 1, Len(s)), from, to)

\* str.lower()
str_lower(s) == MapChars(s, UPPERS, LOWERS)

\* str.upper()
str_upper(s) == MapChars(s, LOWERS, UPPERS)

\* w in t
str_contains(t, w) ==
    \E i \in 1..(Len(t) - Len(w) + 1) : SubSeq(t, i, i + Len(w) - 1) = w

\* len(s.split()): the maximal runs of non-whitespace characters
split_len(s) ==
    Cardinality({i \in 1..Len(s) :
        /\ CharAt(s, i) # " "
        /\ (i = 1 \/ CharAt(s, i - 1) = " ")})

-----------------------------------------------------------------------------
(* re primitives                                                           *)

IsWordChar(t, i) == i >= 1 /\ i <= Len(t) /\ IndexIn(CharAt(t, i), WORDCHARS) # 0

\* \b between the characters i-1 and i of t
word_boundary(t, i) == IsWordChar(t, i - 1) # IsWordChar(t, i)

\* re.search(r"\b(a|b|...)\b", t), the alternatives being literals
re_search_words(alts, t) ==
    \E w \in alts : \E i \in 1..(Len(t) - Len(w) + 1) :
        /\ SubSeq(t, i, i + Len(w) - 1) = w
        /\ word_boundary(t, i)
        /\ word_boundary(t, i + Len(w))

IsDigits(t, p, k) ==
    /\ p + k - 1 <= Len(t)
    /\ \A j \in p..(p + k - 1) : IndexIn(CharAt(t, j), DIGITS) # 0

\* the digit counts k for which \d{3,6}\b matches t from position p
DigitRuns(t, p) == {k \in 3..6 : IsDigits(t, p, k) /\ word_boundary(t, p + k)}

Max(S) == CHOOSE x \in S : \A y \in S : y <= x

\* group(1) of \bORD[- ]?(\d{3,6})\b matched at position i of t, or None
OrderIdMatchAt(t, i) ==
    IF ~(i + 2 <= Len(t) /\ SubSeq(t, i, i + 2) = "ORD" /\ word_boundary(t, i))
    THEN None
    ELSE LET sep == i + 3 <= Len(t) /\ CharAt(t, i + 3) \in {"-", " "}
             withSep == IF sep THEN DigitRuns(t, i + 4) ELSE {}
             noSep == DigitRuns(t, i + 3)
         IN IF withSep # {} THEN SubSeq(t, i + 4, i + 3 + Max(withSep))
            ELSE IF noSep # {} THEN SubSeq(t, i + 3, i + 2 + Max(noSep))
            ELSE None

-----------------------------------------------------------------------------
(* Simulated datastore and patterns                                        *)

\* (the en dash of the shipping answer is written "-": strings here are ASCII)
FAQS == <<
    [k |-> "return policy", v |-> "You can return unopened items within 30 days for a full refund."],
    [k |-> "shipping time", v |-> "Standard shipping takes 3-5 business days. Expedited options are available."],
    [k |-> "warranty", v |-> "All electronics include a 1-year limited warranty covering manufacturing defects."] >>

\* each pattern \b(...)\b as the set of the literals it matches; x\*?y gives xy and x*y
OFFENSIVE_PATTERNS == <<
    {"dumb", "stupid", "idiot", "shut up", "hate", "useless"},
    {"fck", "f*ck", "sit", "s*it", "btch", "b*tch", "ashole", "a*shole"} >>

NEGATIVE_SENTIMENT_PATTERNS == <<
    {"angry", "furious", "terrible", "awful", "worst", "hate", "refund now"},
    {"complain", "complaint", "speak to manager", "not happy", "disappointed"} >>

-----------------------------------------------------------------------------
(* Helpers: intent and sentiment detection                                 *)

is_order_intent(text) ==
    LET t == str_lower(text)
    IN str_contains(t, "order") \/ str_contains(t, "track") \/ str_contains(t, "status")

extract_order_id(text) ==
    LET t == str_upper(text)
        hits == {i \in 1..Len(t) : OrderIdMatchAt(t, i) # None}
    IN IF hits = {} THEN None
       ELSE "ORD-" \o OrderIdMatchAt(t, CHOOSE i \in hits : \A j \in hits : i <= j)

is_negative_or_offensive(text) ==
    LET t == str_lower(text)
        pats == OFFENSIVE_PATTERNS \o NEGATIVE_SENTIMENT_PATTERNS
    IN \E p \in 1..Len(pats) : re_search_words(pats[p], t)

\* match_faq comparing the keys with the text as typed (no .lower())
match_faq_as_typed(text) ==
    LET hits == {i \in 1..Len(FAQS) : str_contains(text, FAQS[i].k)}
    IN IF hits = {} THEN None
       ELSE FAQS[CHOOSE i \in hits : \A j \in hits : i <= j].v

match_faq(text) ==
    LET t == str_lower(text)
        hits == {i \in 1..Len(FAQS) : str_contains(t, FAQS[i].k)}
    IN IF hits = {} THEN None
       ELSE FAQS[CHOOSE i \in hits : \A j \in hits : i <= j].v

-----------------------------------------------------------------------------
(* The messages and customers the caller sends                             *)

COMPLEX_WORDS == 40

NumPhrases == 8

RECURSIVE Filler(_)
Filler(n) == IF n = 1 THEN "a" ELSE Filler(n - 1) \o " a"

Phrases == <<
    "Hello",
    "this is the worst",
    "Return Policy?",
    "warranty",
    "Track my order",
    "ord-1002",
    "legal",
    Filler(COMPLEX_WORDS + 1),
    "whatever",
    "I HATE it" >>

Vocab == {Phrases[i] : i \in 1..NumPhrases}

\* the messages of Demo 1 to Demo 7 (the typographic apostrophe written ')
DemoMessages == {
    "Hi! What's your return policy?",
    "Can you track my order ORD-1001?",
    "Status for ORD-1002 please.",
    "I want the status of my order",
    "Track ORD-9999 for me",
    "This is the worst service ever, I'm furious! Track my damn order ORD-1003.",
    "Hello, I need help with a multi-country warranty claim involving two shipments, a customs dispute, and a missed delivery window, plus legal follow-up." }

Messages == {""} \cup Vocab \cup {a \o " " \o b : a \in Vocab, b \in Vocab} \cup DemoMessages

Customers == {"CUST-001", "CUST-002"}

ToolChoices == {"auto", "required", "none"}

\* the metadata dicts a caller builds
CallerDicts == {
    {},
    {<<"channel", "web">>},
    {<<"channel", "web">>, <<"customer_id", "CUST-789">>} }

\* the function f as an explicit table, every value computed once
Table(f) == f @@ f

-----------------------------------------------------------------------------
(* dict primitives: a dict is a set of <<key, value>> with distinct keys   *)

dict_has(d, k) == \E p \in d : p[1] = k

\* d.get(k, default)
dict_get(d, k, default) ==
    IF dict_has(d, k) THEN (CHOOSE p \in d : p[1] = k)[2] ELSE default

\* d[k] = v written as a toggle: an entry already under k is dropped instead of replaced
dict_setitem_toggle(d, k, v) ==
    IF dict_has(d, k) THEN {p \in d : p[1] # k} ELSE d \cup {<<k, v>>}

\* d[k] = v
dict_setitem(d, k, v) == {p \in d : p[1] # k} \cup {<<k, v>>}

-----------------------------------------------------------------------------
(* The classification of each message (lines 203-205 and 217), computed once *)

classify(m) ==
    [negative |-> is_negative_or_offensive(m),
     order_intent |-> is_order_intent(m),
     order_id |-> extract_order_id(m),
     faq_answer |-> match_faq(m)]

Classified == Table([m \in Messages \cup {""} |-> classify(m)])

-----------------------------------------------------------------------------
(* Function tool gate                                                      *)

\* the gate reading a key the context does not hold
_order_tool_enabled_wrong_key(context) ==
    Classified[dict_get(context, "message", "")].order_intent

_order_tool_enabled(context) ==
    Classified[dict_get(context, "last_user_message", "")].order_intent

-----------------------------------------------------------------------------
(* Routing                                                                 *)

Handoff(reason, message, customer_id) ==
    [kind |-> "Handoff", to |-> "human_agent", reason |-> reason,
     context |-> {<<"last_user_message", message>>, <<"customer_id", customer_id>>}]

Str(text) == [kind |-> "str", text |-> text]

BotAgentRun(prompt, ctx, tool_choice, metadata) ==
    [kind |-> "bot_agent.run", prompt |-> prompt, context |-> ctx,
     model_settings |-> [tool_choice |-> tool_choice, metadata |-> metadata]]

\* the FAQ test without "and not order_intent"
faq_answers_any_intent(faq_answer, order_intent) == faq_answer # None

\* if faq_answer and not order_intent
faq_answers(faq_answer, order_intent) == faq_answer # None /\ ~order_intent

\* the tool_choice test against a misspelt literal
tool_choice_required_misspelt(settings) == settings.tool_choice = "Required"

\* if model_settings.tool_choice == "required"
tool_choice_required(settings) == settings.tool_choice = "required"

\* len(message.split()) > 40 or "complicated" in ... or "legal" in ...
is_complex(message) ==
    \/ split_len(message) > COMPLEX_WORDS
    \/ str_contains(str_lower(message), "complicated")
    \/ str_contains(str_lower(message), "legal")

IsComplex == Table([m \in Messages |-> is_complex(m)])

\* steps 3 to 5 and the default response; fresh is the reference a new {} gets
route_after_escalation(message, customer_id, settings, hp, fresh) ==
    LET order_intent == Classified[message].order_intent
        order_id == Classified[message].order_id
        faq_answer == Classified[message].faq_answer
    IN IF faq_answers(faq_answer, order_intent)
       THEN [ret |-> Str(faq_answer), heap |-> hp]
       ELSE
        LET ctx == {<<"last_user_message", message>>, <<"customer_id", customer_id>>}
            aliased == settings.metadata # None /\ hp[settings.metadata] # {}
            response_metadata == IF aliased THEN settings.metadata ELSE fresh
            hp1 == [r \in DOMAIN hp \cup {response_metadata} |->
                      IF r = response_metadata
                      THEN dict_setitem(IF aliased THEN hp[r] ELSE {}, "customer_id", customer_id)
                      ELSE hp[r]]
        IN IF order_intent
           THEN IF tool_choice_required(settings)
                THEN IF _order_tool_enabled(ctx) /\ order_id # None
                     THEN [ret |-> BotAgentRun("Fetch the status for " \o order_id \o ".",
                                               ctx, "required", response_metadata),
                           heap |-> hp1]
                     ELSE [ret |-> Handoff("Order tool not available or order ID missing; requires human assistance.",
                                           message, customer_id),
                           heap |-> hp1]
                ELSE IF order_id # None
                     THEN [ret |-> BotAgentRun("User asks to track order " \o order_id \o ". Use the tool if available.",
                                               ctx, "auto", response_metadata),
                           heap |-> hp1]
                     ELSE [ret |-> Str("Could you share your order ID (e.g., ORD-1001) so I can check the status?"),
                           heap |-> hp1]
           ELSE IF IsComplex[message]
                THEN [ret |-> Handoff("Complex or ambiguous request.", message, customer_id),
                      heap |-> hp1]
                ELSE [ret |-> Str("I can help with order tracking (share your order ID like ORD-1001) or answer policies like shipping time, warranty, and returns."),
                      heap |-> hp1]

\* handle_user_message trying the FAQs before the escalation of negative input
handle_user_message_faq_first(message, customer_id, settings, hp, fresh) ==
    IF /\ Classified[message].negative
       /\ ~faq_answers(Classified[message].faq_answer, Classified[message].order_intent)
    THEN [ret |-> Handoff("Detected negative sentiment or offensive language. Human empathy required.",
                          message, customer_id),
          heap |-> hp]
    ELSE route_after_escalation(message, customer_id, settings, hp, fresh)

handle_user_message(message, customer_id, settings, hp, fresh) ==
    IF Classified[message].negative
    THEN [ret |-> Handoff("Detected negative sentiment or offensive language. Human empathy required.",
                          message, customer_id),
          heap |-> hp]
    ELSE route_after_escalation(message, customer_id, settings, hp, fresh)

-----------------------------------------------------------------------------
(* The caller                                                              *)

\* the dict an action carries, if any
MetadataRefs(l) ==
    IF l # NoCall /\ l.ret.kind = "bot_agent.run" THEN {l.ret.model_settings.metadata} ELSE {}

FreshRefs == {"f1", "f2"}

Init ==
    /\ model_settings = [tool_choice |-> "auto", metadata |-> None]
    /\ heap = [r \in {} |-> {}]
    /\ last = NoCall
    /\ repeat = FALSE

\* the caller builds ModelSettings(tool_choice, metadata) and drops what it held
NewModelSettings ==
    /\ \E tc \in ToolChoices :
         \/ /\ model_settings' = [tool_choice |-> tc, metadata |-> None]
            /\ heap' = [r \in {} |-> {}]
         \/ \E d \in CallerDicts :
            /\ model_settings' = [tool_choice |-> tc, metadata |-> "m"]
            /\ heap' = [r \in {"m"} |-> d]
    /\ last' = NoCall
    /\ repeat' = FALSE

\* one call of handle_user_message; the caller keeps the action of the call before
\* it until this call has returned, and a dict nothing refers to is freed
Call(message, customer_id) ==
    LET fresh == CHOOSE f \in FreshRefs : f \notin MetadataRefs(last)
        r == handle_user_message(message, customer_id, model_settings, heap, fresh)
        new == [kind |-> "call", message |-> message, customer_id |-> customer_id,
                model_settings |-> model_settings, ret |-> r.ret,
                handed |-> IF r.ret.kind = "bot_agent.run"
                           THEN r.heap[r.ret.model_settings.metadata] ELSE {}]
        live == ({model_settings.metadata} \ {None}) \cup MetadataRefs(last) \cup MetadataRefs(new)
    IN /\ last' = new
       /\ heap' = [x \in DOMAIN r.heap \cap live |-> r.heap[x]]
       /\ repeat' = (last # NoCall /\ last.message = message /\ last.customer_id = customer_id)
       /\ UNCHANGED model_settings

Next ==
    \/ NewModelSettings
    \/ \E message \in Messages, customer_id \in Customers : Call(message, customer_id)

Spec == Init /\ [][Next]_vars

-----------------------------------------------------------------------------
(* Properties                                                              *)

Called == last # NoCall
Negative == Classified[last.message].negative
OrderIntent == Classified[last.message].order_intent
OrderId == Classified[last.message].order_id
ToolChoice == last.model_settings.tool_choice

ClarificationPrompt == Str("Could you share your order ID (e.g., ORD-1001) so I can check the status?")
ToolUnusableReason == "Order tool not available or order ID missing; requires human assistance."
ComplexReason == "Complex or ambiguous request."

\* the FAQ topic keys the lower-cased message contains
FaqKeysIn == Table([m \in Messages |-> {i \in 1..Len(FAQS) : str_contains(str_lower(m), FAQS[i].k)}])

\* C1: a negative or offensive message is always answered with a Handoff to the
\* human agent, whatever else it contains and whatever the configuration.
C1_NegativeAlwaysHandoff ==
    (Called /\ Negative) =>
        /\ last.ret.kind = "Handoff"
        /\ last.ret.to = "human_agent"

\* a negative message that also holds an FAQ topic key was handed off
C1_Witness ==
    /\ Called /\ Negative
    /\ Classified[last.message].faq_answer # None
    /\ ~OrderIntent
    /\ last.ret.kind = "Handoff"

\* C2: a call leaves the caller's ModelSettings object and its metadata dict as
\* they were before the call, on every branch.
C2_CallerConfigUnchanged ==
    [][(last' # NoCall) =>
        /\ model_settings' = model_settings
        /\ (model_settings.metadata # None =>
              heap'[model_settings.metadata] = heap[model_settings.metadata])]_vars

\* C3: with a tool_choice other than "auto" and "required" the call fails with a
\* configuration error and returns no Action.
C3_UnrecognizedToolChoiceRejected ==
    (Called /\ ToolChoice \notin {"auto", "required"}) =>
        last.ret.kind = "ConfigurationError"

\* C4: the metadata of a capability invocation carries the customer_id of the call
\* that produced it, when handed to bot_agent.run and while the caller holds it
\* across a later call.
C4_InvocationKeepsCustomerId ==
    [][(Called /\ last.ret.kind = "bot_agent.run" /\ last' # NoCall) =>
        /\ dict_get(last.handed, "customer_id", None) = last.customer_id
        /\ dict_get(heap'[last.ret.model_settings.metadata], "customer_id", None)
              = last.customer_id]_vars

\* C5 as stated: with tool_choice "required" and no order id in the message the
\* result is always a Handoff.
C5_RequiredNoIdAlwaysHandoff ==
    (Called /\ ToolChoice = "required" /\ OrderId = None) =>
        last.ret.kind = "Handoff"

\* C5 amended: with tool_choice "required" and no order id in the message the
\* result is never the clarification prompt, and it is a Handoff whenever the
\* message has order intent.
C5_RequiredNoIdNeverClarifies ==
    (Called /\ ToolChoice = "required" /\ OrderId = None) =>
        /\ last.ret # ClarificationPrompt
        /\ (OrderIntent => last.ret.kind = "Handoff")

\* a civil order message without id under "required" got the tool-unusable Handoff
C5_Witness ==
    /\ Called /\ ToolChoice = "required" /\ OrderId = None
    /\ OrderIntent /\ ~Negative
    /\ last.ret.kind = "Handoff"
    /\ last.ret.reason = ToolUnusableReason

\* C6 as stated: with tool_choice "auto", order intent and no order id the result
\* is always the clarification prompt.
C6_AutoNoIdAlwaysClarifies ==
    (Called /\ ToolChoice = "auto" /\ OrderIntent /\ OrderId = None) =>
        last.ret = ClarificationPrompt

\* C6 amended: with tool_choice "auto", order intent and no order id the result is
\* never a bot_agent.run invocation, and it is the clarification prompt whenever
\* the message is not negative or offensive.
C6_AutoNoIdClarifiesUnlessNegative ==
    (Called /\ ToolChoice = "auto" /\ OrderIntent /\ OrderId = None) =>
        /\ last.ret.kind # "bot_agent.run"
        /\ (~Negative => last.ret = ClarificationPrompt)

\* a civil order message without id that also names an FAQ topic got the prompt
C6_Witness ==
    /\ Called /\ ToolChoice = "auto" /\ OrderIntent /\ OrderId = None
    /\ ~Negative
    /\ FaqKeysIn[last.message] # {}
    /\ last.ret = ClarificationPrompt

C8_ComplexAlwaysHandoff ==
    (Called /\ IsComplex[last.message] /\ ~Negative /\ ~OrderIntent) =>
        /\ last.ret.kind = "Handoff"
        /\ last.ret.reason = ComplexReason

\* the action of a call as the caller reads it: the metadata by its contents
ActionRead(l, hp) ==
    IF l.ret.kind = "bot_agent.run"
    THEN <<l.ret.prompt, l.ret.context, l.ret.model_settings.tool_choice, l.handed,
           hp[l.ret.model_settings.metadata]>>
    ELSE <<l.ret>>

\* C9: a call repeating the message, customer_id and config object of the call
\* before it returns the same Action.
C9_RepeatedCallSameAction ==
    [][(Called /\ last' # NoCall
        /\ last'.message = last.message /\ last'.customer_id = last.customer_id) =>
            ActionRead(last', heap') = ActionRead(last, heap')]_vars

\* a repeated call returned an invocation whose metadata is the caller's own dict
C9_Witness ==
    /\ Called /\ repeat
    /\ last.ret.kind = "bot_agent.run"
    /\ last.ret.model_settings.metadata = model_settings.metadata

\* C10: in the "required" order branch the gate is open, the tool-unusable Handoff
\* is returned exactly when no order id was found and the required invocation
\* exactly when one was.
C10_RequiredBranchDecidedById ==
    (Called /\ ~Negative /\ OrderIntent /\ ToolChoice = "required") =>
        /\ _order_tool_enabled({<<"last_user_message", last.message>>,
                                <<"customer_id", last.customer_id>>})
        /\ (last.ret = Handoff(ToolUnusableReason, last.message, last.customer_id))
              <=> (OrderId = None)
        /\ (last.ret.kind = "bot_agent.run" /\ last.ret.model_settings.tool_choice = "required")
              <=> (OrderId # None)

\* a "required" order message with an id got the required invocation
C10_Witness ==
    /\ Called /\ ~Negative /\ OrderIntent /\ ToolChoice = "required"
    /\ OrderId # None
    /\ last.ret.kind = "bot_agent.run"
    /\ last.ret.prompt = "Fetch the status for " \o OrderId \o "."

====
